---- MODULE Spec2Model ----
(***************************************************************************)
(* Stock dashboard (src/main.py): the quote cache of StockDataManager, the *)
(* refresh cycle update_market_data, and the watchlist / holdings ledger   *)
(* of PortfolioManager with the add-holding form.                          *)
(*                                                                         *)
(* Modelling conventions                                                   *)
(*  - a Python str is a sequence of one-character strings, so that         *)
(*    str.upper() and float() are computed character by character;         *)
(*  - a Python float is an exact number: a finite value is an integer      *)
(*    (or a normalised fraction for the percent change), nan and inf are   *)
(*    separate values; rounding is not modelled;                           *)
(*  - datetime.now() is the integer clock `now`, in seconds;               *)
(*  - None is the record NoneVal;                                          *)
(*  - the optional StockData fields market_cap, pe_ratio, dividend_yield   *)
(*    (plain info.get look-ups, never read again) are left out.            *)
(*  - get_stock_data contains no suspension point (yfinance is called      *)
(*    synchronously), so the coroutine, and every coroutine awaiting it,   *)
(*    runs to completion on the event loop without interleaving.           *)
(***************************************************************************)
EXTENDS Integers, Sequences, FiniteSets, TLC

VARIABLES
    now,           \* wall clock (datetime.now()), seconds
    cache,         \* stock_manager.cache : key -> StockData
    current_data,  \* global current_data : key -> StockData (the snapshot)
    portfolio,     \* portfolio_manager.portfolio : sequence of holdings
    watchlist,     \* portfolio_manager.watchlist : sequence of symbols
    cycle,         \* position of the running update_market_data, if any
    ui,            \* the browser page: is it open, does it show the add-holding form
    lastCall,      \* the most recent call: operation, argument, outcome
    faults         \* number of non-nominal provider responses so far

vars == <<now, cache, current_data, portfolio, watchlist, cycle, ui, lastCall, faults>>

---------------------------------------------------------------------------
(* Bounds of the model                                                     *)

MaxTime == 61        \* the clock stops advancing after this many seconds
MaxFaults == 1       \* non-nominal provider responses per behaviour
MaxHoldings == 2     \* holdings the ledger may reach
MaxBars == 3         \* rows of a price history handed to the quote computation

---------------------------------------------------------------------------
(* Strings                                                                 *)

UpperOf ==
    [a |-> "A", b |-> "B", c |-> "C", d |-> "D", e |-> "E", f |-> "F",
     g |-> "G", h |-> "H", i |-> "I", j |-> "J", k |-> "K", l |-> "L",
     m |-> "M", n |-> "N", o |-> "O", p |-> "P", q |-> "Q", r |-> "R",
     s |-> "S", t |-> "T", u |-> "U", v |-> "V", w |-> "W", x |-> "X",
     y |-> "Y", z |-> "Z"]

UpperChar(ch) == IF ch \in DOMAIN UpperOf THEN UpperOf[ch] ELSE ch

\* str.upper()
Upper(str) == [idx \in 1..Len(str) |-> UpperChar(str[idx])]

AAPL == <<"A", "A", "P", "L">>
GOOGL == <<"G", "O", "O", "G", "L">>
MSFT == <<"M", "S", "F", "T">>
TSLA == <<"T", "S", "L", "A">>
AMZN == <<"A", "M", "Z", "N">>
NVDA == <<"N", "V", "D", "A">>
META == <<"M", "E", "T", "A">>
NFLX == <<"N", "F", "L", "X">>
GSPC == <<"^", "G", "S", "P", "C">>
DJI == <<"^", "D", "J", "I">>
IXIC == <<"^", "I", "X", "I", "C">>
VIX == <<"^", "V", "I", "X">>
aapl == <<"a", "a", "p", "l">>
Aapl == <<"A", "a", "p", "l">>
IBM == <<"I", "B", "M">>
ibm == <<"i", "b", "m">>

\* MARKET_INDICES.keys(), in insertion order
MARKET_INDICES == <<GSPC, DJI, IXIC, VIX>>

\* PortfolioManager().watchlist
InitialWatchlist == <<AAPL, GOOGL, MSFT, TSLA, AMZN, NVDA, META, NFLX>>

NoneVal == [kind |-> "None"]

---------------------------------------------------------------------------
(* Numbers                                                                 *)

Abs(x) == IF x < 0 THEN -x ELSE x

RECURSIVE GCD(_, _)
GCD(x, y) == IF y = 0 THEN x ELSE GCD(y, x % y)

\* the exact quotient num / den (den # 0), in lowest terms with den > 0
Frac(num, den) ==
    LET g == GCD(Abs(num), Abs(den))
        sgn == IF den < 0 THEN -1 ELSE 1
    IN  [num |-> sgn * (num \div g), den |-> sgn * (den \div g)]

Zero == [num |-> 0, den |-> 1]

---------------------------------------------------------------------------
(* The market-data provider (yfinance), as get_stock_data sees it: either  *)
(* some statement of the try block raises, or ticker.info and              *)
(* ticker.history(period="2d") come back.                                  *)

Raises == [raises |-> TRUE]

Answer(info, closes, volume) ==
    [raises |-> FALSE, info |-> info, closes |-> closes, volume |-> volume]

NoResponse == [raises |-> FALSE, unused |-> TRUE]

AppleInfo == [longName |-> <<"A", "p", "p", "l", "e">>]
BareInfo == [quoteType |-> <<"E", "Q">>]

\* the response of an ordinary trading day
Nominal == Answer(AppleInfo, <<150, 165>>, 1000)

\* the history comes back empty
EmptyHistory == Answer(AppleInfo, <<>>, 0)

\* every other response the provider gives to a direct get_stock_data call
FaultResponses == {Raises, EmptyHistory, Answer(BareInfo, <<100>>, 7)}

\* every other response the provider gives during a handler of the page
PageFaultResponses == {Raises, EmptyHistory}

\* dict.get(key, default)
DictGet(dict, key, default) == IF key \in DOMAIN dict THEN dict[key] ELSE default

\* dict[key] = value
DictSet(dict, key, value) ==
    [kk \in DOMAIN dict \cup {key} |-> IF kk = key THEN value ELSE dict[kk]]

---------------------------------------------------------------------------
(* StockDataManager                                                        *)

\* self.cache_duration = timedelta(minutes=1)
cache_duration == 60

\* hist['Close'].iloc[-1]
CurrentPrice(closes) == closes[Len(closes)]

PreviousPrice_FirstRow(closes) == closes[1]

\* hist['Close'].iloc[-2] if len(hist) > 1 else current_price
PreviousPrice(closes) ==
    IF Len(closes) > 1 THEN closes[Len(closes) - 1] ELSE CurrentPrice(closes)

\* (change / previous_price) * 100 if previous_price != 0 else 0
ChangePercent(change, previous_price) ==
    IF previous_price # 0 THEN Frac(change * 100, previous_price) ELSE Zero

FetchStockData_NoEmptyTest(symbol, resp, t) ==
    IF resp.raises THEN NoneVal
    ELSE IF Len(resp.closes) = 0
    THEN [kind |-> "StockData",
          symbol |-> Upper(symbol),
          name |-> DictGet(resp.info, "longName", symbol),
          volume |-> resp.volume,
          last_updated |-> t]
    ELSE [kind |-> "StockData",
          symbol |-> Upper(symbol),
          name |-> DictGet(resp.info, "longName", symbol),
          price |-> CurrentPrice(resp.closes),
          change |-> CurrentPrice(resp.closes) - PreviousPrice(resp.closes),
          change_percent |-> ChangePercent(CurrentPrice(resp.closes) - PreviousPrice(resp.closes),
                                           PreviousPrice(resp.closes)),
          volume |-> resp.volume,
          last_updated |-> t]

\* the body of the try block after the cache lookup: the StockData built
\* from a provider response at time t, or None
FetchStockData(symbol, resp, t) ==
    IF resp.raises THEN NoneVal
    ELSE IF Len(resp.closes) = 0 THEN NoneVal
    ELSE LET current_price == CurrentPrice(resp.closes)
             previous_price == PreviousPrice(resp.closes)
             change == current_price - previous_price
         IN  [kind |-> "StockData",
              symbol |-> Upper(symbol),
              name |-> DictGet(resp.info, "longName", symbol),
              price |-> current_price,
              change |-> change,
              change_percent |-> ChangePercent(change, previous_price),
              volume |-> resp.volume,
              last_updated |-> t]

IsFresh_Reversed(entry, t) == t - entry.last_updated > cache_duration

IsFresh_Inclusive(entry, t) == t - entry.last_updated <= cache_duration

\* datetime.now() - cached_data.last_updated < self.cache_duration
IsFresh(entry, t) == t - entry.last_updated < cache_duration

\* the key under which get_stock_data looks an entry up and stores it
CacheKey(symbol) == symbol

\* the cache lookup at the top of get_stock_data
CacheHit(symbol) ==
    /\ CacheKey(symbol) \in DOMAIN cache
    /\ IsFresh(cache[CacheKey(symbol)], now)

\* the value get_stock_data(symbol) returns when the provider, if asked,
\* answers resp
GetStockDataResult(symbol, resp) ==
    IF CacheHit(symbol) THEN cache[CacheKey(symbol)]
    ELSE FetchStockData(symbol, resp, now)

CacheAfterFailure_Evict(symbol) ==
    [kk \in DOMAIN cache \ {CacheKey(symbol)} |-> cache[kk]]

\* the cache after get_stock_data(symbol): a failure stores nothing
CacheAfterFailure(symbol) == cache

GetStockDataCache(symbol, resp) ==
    IF CacheHit(symbol) THEN cache
    ELSE IF FetchStockData(symbol, resp, now) = NoneVal
         THEN CacheAfterFailure(symbol)
         ELSE DictSet(cache, CacheKey(symbol), FetchStockData(symbol, resp, now))

\* the responses the provider may give to the next fetch
Responses == IF faults < MaxFaults THEN FaultResponses \cup {Nominal} ELSE {Nominal}

PageResponses == IF faults < MaxFaults THEN PageFaultResponses \cup {Nominal} ELSE {Nominal}

\* what a get_stock_data(symbol) call records and does to the manager
CallGetStockData(symbol, resp) ==
    /\ cache' = GetStockDataCache(symbol, resp)
    /\ lastCall' = [id |-> 1 - lastCall.id,
                    op |-> "get_stock_data",
                    arg |-> symbol,
                    at |-> now,
                    before |-> DictGet(cache, CacheKey(symbol), NoneVal),
                    fetched |-> ~CacheHit(symbol),
                    resp |-> IF CacheHit(symbol) THEN NoResponse ELSE resp,
                    ret |-> GetStockDataResult(symbol, resp)]
    /\ faults' = IF ~CacheHit(symbol) /\ resp # Nominal THEN faults + 1 ELSE faults

\* the provider responses to choose from for a call of get_stock_data
ResponsesFor(symbol) == IF CacheHit(symbol) THEN {NoResponse} ELSE Responses

PageResponsesFor(symbol) == IF CacheHit(symbol) THEN {NoResponse} ELSE PageResponses

Idle_Always == TRUE

\* no handler is in the middle of its run: the event loop takes the next
\* one only then, as nothing in update_market_data, refresh_dashboard or
\* get_stock_data awaits anything that suspends
Idle == cycle.phase = "idle"

\* await stock_manager.get_stock_data(symbol), called on its own
get_stock_data(symbol) ==
    /\ Idle
    /\ \E resp \in ResponsesFor(symbol) : CallGetStockData(symbol, resp)
    /\ UNCHANGED <<now, current_data, portfolio, watchlist, cycle, ui>>

\* time passes between two handlers of the event loop (a provider call is
\* taken to be instantaneous)
Tick(step) ==
    /\ Idle
    /\ now + step <= MaxTime
    /\ now' = now + step
    /\ UNCHANGED <<cache, current_data, portfolio, watchlist, cycle, ui, lastCall, faults>>

TickSteps == {30, 31}

EmptyDict == [kk \in {} |-> NoneVal]

NoCall == [id |-> 0, op |-> "none", arg |-> <<>>, at |-> 0, before |-> NoneVal,
           fetched |-> FALSE, resp |-> NoResponse, ret |-> NoneVal]

\* stock_manager = StockDataManager(); portfolio_manager = PortfolioManager();
\* current_data = {}
Init ==
    /\ now = 0
    /\ cache = EmptyDict
    /\ current_data = EmptyDict
    /\ portfolio = <<>>
    /\ watchlist = InitialWatchlist
    /\ cycle = [phase |-> "idle", pos |-> 0, origin |-> "none",
                seen |-> <<>>, ok |-> TRUE, active |-> 0]
    /\ ui = [open |-> FALSE, form |-> FALSE, view |-> NoneVal]
    /\ lastCall = NoCall
    /\ faults = 0

\* symbols passed to get_stock_data on its own
CacheSymbols == {AAPL, aapl, GSPC}

CacheNext ==
    \/ \E step \in TickSteps : Tick(step)
    \/ \E symbol \in CacheSymbols : get_stock_data(symbol)

SpecCache == Init /\ [][CacheNext]_vars

---------------------------------------------------------------------------
(* Python floats and float(text)                                           *)

Fin(val) == [kind |-> "finite", val |-> val]
NaN == [kind |-> "nan"]
Inf == [kind |-> "inf"]
ValueError == [kind |-> "ValueError"]

DigitOf ==
    ("0" :> 0) @@ ("1" :> 1) @@ ("2" :> 2) @@ ("3" :> 3) @@ ("4" :> 4) @@
    ("5" :> 5) @@ ("6" :> 6) @@ ("7" :> 7) @@ ("8" :> 8) @@ ("9" :> 9)

IsDigits(text) == Len(text) > 0 /\ \A idx \in 1..Len(text) : text[idx] \in DOMAIN DigitOf

RECURSIVE DigitsValue(_)
DigitsValue(text) ==
    IF Len(text) = 0 THEN 0
    ELSE 10 * DigitsValue(SubSeq(text, 1, Len(text) - 1)) + DigitOf[text[Len(text)]]

Tail1(text) == SubSeq(text, 2, Len(text))

\* float(text) for texts made of a sign, digits and letters: an optional
\* sign followed by decimal digits, by "nan" or by "inf" in any casing;
\* anything else raises ValueError.  (Texts with ".", an exponent, "_" or
\* blanks are not among the inputs of the model.)
ParseFloat(text) ==
    LET signed == Len(text) > 0 /\ text[1] \in {"+", "-"}
        body == IF signed THEN Tail1(text) ELSE text
        sign == IF signed /\ text[1] = "-" THEN -1 ELSE 1
    IN  IF IsDigits(body) THEN Fin(sign * DigitsValue(body))
        ELSE IF Upper(body) = <<"N", "A", "N">> THEN NaN
        ELSE IF Upper(body) = <<"I", "N", "F">>
             THEN [Inf EXCEPT !.kind = IF sign = 1 THEN "inf" ELSE "-inf"]
        ELSE ValueError

---------------------------------------------------------------------------
(* PortfolioManager                                                        *)

\* x in list
InList(list, x) == \E idx \in 1..Len(list) : list[idx] = x

\* list.remove(x) for x in list: the first occurrence goes
ListRemove(list, x) ==
    LET first == CHOOSE idx \in 1..Len(list) :
                    list[idx] = x /\ \A jdx \in 1..(idx - 1) : list[jdx] # x
    IN  SubSeq(list, 1, first - 1) \o SubSeq(list, first + 1, Len(list))

\* the holding add_to_portfolio appends
Holding(symbol, shares, purchase_price) ==
    [symbol |-> Upper(symbol), shares |-> shares,
     purchase_price |-> purchase_price, purchase_date |-> now]

AddToPortfolio_Upsert(symbol, shares, purchase_price) ==
    IF \E idx \in 1..Len(portfolio) : portfolio[idx].symbol = Upper(symbol)
    THEN [idx \in 1..Len(portfolio) |->
             IF portfolio[idx].symbol = Upper(symbol)
             THEN Holding(symbol, shares, purchase_price)
             ELSE portfolio[idx]]
    ELSE Append(portfolio, Holding(symbol, shares, purchase_price))

\* PortfolioManager.add_to_portfolio: the ledger afterwards
AddToPortfolio(symbol, shares, purchase_price) ==
    Append(portfolio, Holding(symbol, shares, purchase_price))

AddToWatchlist_Prepend(symbol) ==
    IF ~InList(watchlist, Upper(symbol)) THEN <<Upper(symbol)>> \o watchlist
    ELSE watchlist

AddToWatchlist_RawTest(symbol) ==
    IF ~InList(watchlist, symbol) THEN Append(watchlist, Upper(symbol))
    ELSE watchlist

\* PortfolioManager.add_to_watchlist: the watchlist afterwards
AddToWatchlist(symbol) ==
    IF ~InList(watchlist, Upper(symbol)) THEN Append(watchlist, Upper(symbol))
    ELSE watchlist

\* the symbol remove_from_watchlist looks for
RemoveKey(symbol) == symbol

RemoveFromWatchlist_Pop(symbol) ==
    IF InList(watchlist, RemoveKey(symbol)) THEN SubSeq(watchlist, 1, Len(watchlist) - 1)
    ELSE watchlist

\* PortfolioManager.remove_from_watchlist: the watchlist afterwards
RemoveFromWatchlist(symbol) ==
    IF InList(watchlist, RemoveKey(symbol)) THEN ListRemove(watchlist, RemoveKey(symbol))
    ELSE watchlist

\* the record of a call that is not get_stock_data
Called(op, arg, before, ret) ==
    [id |-> 1 - lastCall.id, op |-> op, arg |-> arg, at |-> now, before |-> before,
     fetched |-> FALSE, resp |-> NoResponse, ret |-> ret]

\* portfolio_manager.add_to_portfolio(symbol, shares, purchase_price)
add_to_portfolio(symbol, shares, purchase_price) ==
    /\ Idle
    /\ Len(portfolio) < MaxHoldings
    /\ portfolio' = AddToPortfolio(symbol, shares, purchase_price)
    /\ lastCall' = Called("add_to_portfolio", <<symbol, shares, purchase_price>>,
                          portfolio, NoneVal)
    /\ UNCHANGED <<now, cache, current_data, watchlist, cycle, ui, faults>>

\* portfolio_manager.add_to_watchlist(symbol)
add_to_watchlist(symbol) ==
    /\ Idle
    /\ watchlist' = AddToWatchlist(symbol)
    /\ lastCall' = Called("add_to_watchlist", symbol, watchlist, NoneVal)
    /\ UNCHANGED <<now, cache, current_data, portfolio, cycle, ui, faults>>

\* portfolio_manager.remove_from_watchlist(symbol)
remove_from_watchlist(symbol) ==
    /\ Idle
    /\ watchlist' = RemoveFromWatchlist(symbol)
    /\ lastCall' = Called("remove_from_watchlist", symbol, watchlist, NoneVal)
    /\ UNCHANGED <<now, cache, current_data, portfolio, cycle, ui, faults>>

---------------------------------------------------------------------------
(* The valuation of the ledger.  Amounts are floats; a percentage is a     *)
(* fraction in lowest terms (or NaN when an operand is not finite).        *)

ZeroDivisionError == [kind |-> "ZeroDivisionError"]

IsFinite(x) == x.kind = "finite"

\* the sign of a float that is neither NaN nor zero
FloatSign(x) ==
    IF x.kind = "inf" THEN 1
    ELSE IF x.kind = "-inf" THEN -1
    ELSE IF x.val < 0 THEN -1 ELSE 1

SignedInf(sign) == [Inf EXCEPT !.kind = IF sign = 1 THEN "inf" ELSE "-inf"]

\* x * y
FloatMul(x, y) ==
    IF IsFinite(x) /\ IsFinite(y) THEN Fin(x.val * y.val)
    ELSE IF x.kind = "nan" \/ y.kind = "nan" THEN NaN
    ELSE IF (IsFinite(x) /\ x.val = 0) \/ (IsFinite(y) /\ y.val = 0) THEN NaN
    ELSE SignedInf(FloatSign(x) * FloatSign(y))

\* x + y
FloatAdd(x, y) ==
    IF IsFinite(x) /\ IsFinite(y) THEN Fin(x.val + y.val)
    ELSE IF x.kind = "nan" \/ y.kind = "nan" THEN NaN
    ELSE IF IsFinite(x) THEN y
    ELSE IF IsFinite(y) THEN x
    ELSE IF x.kind = y.kind THEN x ELSE NaN

\* -x
FloatNeg(x) ==
    IF IsFinite(x) THEN Fin(0 - x.val)
    ELSE IF x.kind = "nan" THEN NaN
    ELSE SignedInf(0 - FloatSign(x))

\* x - y
FloatSub(x, y) == FloatAdd(x, FloatNeg(y))

\* x > 0
FloatPositive(x) == x.kind = "inf" \/ (IsFinite(x) /\ x.val > 0)

\* (x / y) * 100 for y != 0
FloatPercent(x, y) ==
    IF IsFinite(x) /\ IsFinite(y) THEN Frac(x.val * 100, y.val)
    ELSE IF IsFinite(x) /\ y.kind \in {"inf", "-inf"} THEN Zero
    ELSE NaN

\* cost_basis = shares * purchase_price
CostBasis(holding) == FloatMul(holding.shares, holding.purchase_price)

\* current_value = shares * current_price
CurrentValue(holding, snapshot) ==
    FloatMul(holding.shares, Fin(snapshot[holding.symbol].price))

NoTotals == [kind |-> "totals", total_value |-> Fin(0), total_cost |-> Fin(0)]

RECURSIVE ViewTotals_CostOfEvery(_, _)
ViewTotals_CostOfEvery(ledger, snapshot) ==
    IF ledger = <<>> THEN NoTotals
    ELSE LET sofar == ViewTotals_CostOfEvery(SubSeq(ledger, 1, Len(ledger) - 1), snapshot)
             holding == ledger[Len(ledger)]
         IN  IF sofar = ZeroDivisionError THEN ZeroDivisionError
             ELSE IF holding.symbol \notin DOMAIN snapshot
             THEN [sofar EXCEPT !.total_cost = FloatAdd(sofar.total_cost, CostBasis(holding))]
             ELSE IF CostBasis(holding) = Fin(0) THEN ZeroDivisionError
             ELSE [kind |-> "totals",
                   total_value |-> FloatAdd(sofar.total_value, CurrentValue(holding, snapshot)),
                   total_cost |-> FloatAdd(sofar.total_cost, CostBasis(holding))]

\* the loop `for holding in portfolio_manager.portfolio` of
\* create_portfolio_content: the totals after it, or the ZeroDivisionError
\* that pnl_percent = (pnl / cost_basis) * 100 raises
RECURSIVE ViewTotals(_, _)
ViewTotals(ledger, snapshot) ==
    IF ledger = <<>> THEN NoTotals
    ELSE LET sofar == ViewTotals(SubSeq(ledger, 1, Len(ledger) - 1), snapshot)
             holding == ledger[Len(ledger)]
         IN  IF sofar = ZeroDivisionError THEN ZeroDivisionError
             ELSE IF holding.symbol \notin DOMAIN snapshot THEN sofar
             ELSE IF CostBasis(holding) = Fin(0) THEN ZeroDivisionError
             ELSE [kind |-> "totals",
                   total_value |-> FloatAdd(sofar.total_value, CurrentValue(holding, snapshot)),
                   total_cost |-> FloatAdd(sofar.total_cost, CostBasis(holding))]

\* the "Portfolio Summary" card: shown if total_cost > 0
ViewSummary(totals) ==
    IF FloatPositive(totals.total_cost)
    THEN [kind |-> "summary",
          total_value |-> totals.total_value,
          total_cost |-> totals.total_cost,
          total_pnl |-> FloatSub(totals.total_value, totals.total_cost),
          total_pnl_percent |-> FloatPercent(FloatSub(totals.total_value, totals.total_cost),
                                             totals.total_cost)]
    ELSE NoneVal

\* create_portfolio_content: what the portfolio card shows
CreatePortfolioContent(ledger, snapshot) ==
    IF ledger = <<>> THEN [kind |-> "form"]
    ELSE IF ViewTotals(ledger, snapshot) = ZeroDivisionError THEN ZeroDivisionError
    ELSE [kind |-> "holdings",
          totals |-> ViewTotals(ledger, snapshot),
          summary |-> ViewSummary(ViewTotals(ledger, snapshot))]

\* PortfolioManager.calculate_portfolio_value: the loop creates one task
\* per holding and assigns nothing, so both sums keep their initial 0
CalculatePortfolioValue(ledger) ==
    LET total_value == 0
        total_cost == 0
    IN  [total_value |-> Fin(total_value),
         total_cost |-> Fin(total_cost),
         total_pnl |-> Fin(total_value - total_cost),
         total_pnl_percent |-> IF total_cost > 0
                               THEN Frac((total_value - total_cost) * 100, total_cost)
                               ELSE Zero]

---------------------------------------------------------------------------
(* update_market_data, refresh_dashboard and the page.  A refresh runs     *)
(* from start to end without another handler in between (nothing in it     *)
(* suspends); `cycle` is its position: the indices, then the watchlist,    *)
(* then the re-rendering of the containers.  One browser page is           *)
(* modelled: opening "/" again replaces it.  Three fields of `cycle` look  *)
(* back: seen, the symbols the loops have gone through so far; ok,         *)
(* whether every get_stock_data of the cycle returned data; and active,    *)
(* the number of cycles that were started and have not ended.              *)

StartCycle(origin) ==
    [phase |-> "indices", pos |-> 1, origin |-> origin,
     seen |-> <<>>, ok |-> TRUE, active |-> cycle.active + 1]

IdleCycle ==
    [phase |-> "idle", pos |-> 0, origin |-> "none",
     seen |-> <<>>, ok |-> TRUE, active |-> 0]

\* the cycle once the loop body has run for symbol with result data
Visited(symbol, data) ==
    [cycle EXCEPT !.seen = Append(cycle.seen, symbol),
                  !.ok = cycle.ok /\ data # NoneVal]

SnapshotAfter_Blank(symbol, data) ==
    IF data # NoneVal THEN DictSet(current_data, symbol, data)
    ELSE [kk \in DOMAIN current_data \ {symbol} |-> current_data[kk]]

SnapshotAfter_KeepFirst(symbol, data) ==
    IF data # NoneVal /\ symbol \notin DOMAIN current_data
    THEN DictSet(current_data, symbol, data)
    ELSE current_data

SnapshotAfter_StoreNone(symbol, data) == DictSet(current_data, symbol, data)

\* if data: current_data[symbol] = data
SnapshotAfter(symbol, data) ==
    IF data # NoneVal THEN DictSet(current_data, symbol, data) ELSE current_data

\* one iteration of `for symbol, name in MARKET_INDICES.items()`
UpdateIndex ==
    /\ cycle.phase = "indices"
    /\ LET symbol == MARKET_INDICES[cycle.pos] IN
       \E resp \in PageResponsesFor(symbol) :
          LET data == GetStockDataResult(symbol, resp) IN
          /\ CallGetStockData(symbol, resp)
          /\ current_data' = SnapshotAfter(symbol, data)
          /\ cycle' = IF cycle.pos < Len(MARKET_INDICES)
                      THEN [Visited(symbol, data) EXCEPT !.pos = cycle.pos + 1]
                      ELSE IF Len(watchlist) > 0
                           THEN [Visited(symbol, data) EXCEPT !.phase = "watchlist", !.pos = 1]
                           ELSE [Visited(symbol, data) EXCEPT !.phase = "render", !.pos = 0]
    /\ UNCHANGED <<now, portfolio, watchlist, ui>>

\* one iteration of `for symbol in portfolio_manager.watchlist`
UpdateWatched ==
    /\ cycle.phase = "watchlist"
    /\ LET symbol == watchlist[cycle.pos] IN
       \E resp \in PageResponsesFor(symbol) :
          LET data == GetStockDataResult(symbol, resp) IN
          /\ CallGetStockData(symbol, resp)
          /\ current_data' = SnapshotAfter(symbol, data)
          /\ cycle' = IF cycle.pos < Len(watchlist)
                      THEN [Visited(symbol, data) EXCEPT !.pos = cycle.pos + 1]
                      ELSE [Visited(symbol, data) EXCEPT !.phase = "render", !.pos = 0]
    /\ UNCHANGED <<now, portfolio, watchlist, ui>>

\* what follows update_market_data: main_page builds the page, whose
\* portfolio card shows the add-holding form iff the ledger is empty;
\* refresh_dashboard clears and rebuilds the containers if there are any.
\* ui.view is what create_portfolio_content made of the ledger, or the
\* exception that ended it
Render ==
    /\ cycle.phase = "render"
    /\ ui' = IF cycle.origin = "main_page" \/ ui.open
             THEN [open |-> TRUE, form |-> portfolio = <<>>,
                   view |-> CreatePortfolioContent(portfolio, current_data)]
             ELSE ui
    /\ cycle' = [IdleCycle EXCEPT !.active = cycle.active - 1]
    /\ UNCHANGED <<now, cache, current_data, portfolio, watchlist, lastCall, faults>>

\* a browser opens "/": main_page starts with `await update_market_data()`
MainPage ==
    /\ Idle
    /\ cycle' = StartCycle("main_page")
    /\ UNCHANGED <<now, cache, current_data, portfolio, watchlist, ui, lastCall, faults>>

\* refresh_dashboard, from ui.timer(30.0, ...) or the Refresh button
RefreshDashboard ==
    /\ Idle
    /\ ui.open
    /\ cycle' = StartCycle("refresh")
    /\ UNCHANGED <<now, cache, current_data, portfolio, watchlist, ui, lastCall, faults>>

FormFilled_NumbersOnly(symbol_text, shares_text, price_text) ==
    shares_text # <<>> /\ price_text # <<>>

\* if symbol_input.value and shares_input.value and price_input.value
FormFilled(symbol_text, shares_text, price_text) ==
    symbol_text # <<>> /\ shares_text # <<>> /\ price_text # <<>>

\* create_portfolio_content.add_stock: the Add button of the form
PortfolioAddStock(symbol_text, shares_text, price_text) ==
    /\ Idle
    /\ ui.form
    /\ IF ~FormFilled(symbol_text, shares_text, price_text)
       THEN /\ lastCall' = Called("add_stock", <<symbol_text, shares_text, price_text>>,
                                  portfolio, [kind |-> "ignored"])
            /\ UNCHANGED <<portfolio, cycle>>
       ELSE IF ParseFloat(shares_text) = ValueError \/ ParseFloat(price_text) = ValueError
       THEN /\ lastCall' = Called("add_stock", <<symbol_text, shares_text, price_text>>,
                                  portfolio, ValueError)
            /\ UNCHANGED <<portfolio, cycle>>
       ELSE /\ portfolio' = AddToPortfolio(symbol_text, ParseFloat(shares_text),
                                           ParseFloat(price_text))
            /\ lastCall' = Called("add_stock", <<symbol_text, shares_text, price_text>>,
                                  portfolio, NoneVal)
            /\ cycle' = StartCycle("refresh")
    /\ UNCHANGED <<now, cache, current_data, watchlist, ui, faults>>

\* the remove button of a watchlist row: the module-level
\* remove_from_watchlist(symbol), whose refresh task runs next
WatchlistRemoveButton(symbol) ==
    /\ Idle
    /\ ui.open
    /\ InList(watchlist, symbol)
    /\ watchlist' = RemoveFromWatchlist(symbol)
    /\ lastCall' = Called("remove_from_watchlist", symbol, watchlist, NoneVal)
    /\ cycle' = StartCycle("refresh")
    /\ UNCHANGED <<now, cache, current_data, portfolio, ui, faults>>

\* add_to_watchlist_dialog.add_stock: the Add button of the dialog
WatchlistDialogAdd(symbol_text) ==
    /\ Idle
    /\ ui.open
    /\ IF symbol_text = <<>>
       THEN UNCHANGED <<cache, watchlist, cycle, lastCall, faults>>
       ELSE LET symbol == Upper(symbol_text) IN
            \E resp \in PageResponsesFor(symbol) :
               /\ CallGetStockData(symbol, resp)
               /\ IF GetStockDataResult(symbol, resp) # NoneVal
                  THEN /\ watchlist' = AddToWatchlist(symbol)
                       /\ cycle' = StartCycle("refresh")
                  ELSE UNCHANGED <<watchlist, cycle>>
    /\ UNCHANGED <<now, current_data, portfolio, ui>>

\* the time between two handlers of the page, in units of the 30 s timer
PageTickSteps == {30}

\* what the user types and clicks
SymbolTexts == {<<>>, aapl}
SharesTexts == {<<"1", "0">>, <<"-", "5">>, <<"t", "e", "n">>}
PriceTexts == {<<"1", "5", "0">>, <<"0">>, <<"n", "a", "n">>, <<"1", "5", "O">>}
DialogTexts == {<<>>, ibm}
RemoveButtons == {NFLX, IBM}

\* the page, the timer and the watchlist controls
Next ==
    \/ \E step \in PageTickSteps : Tick(step)
    \/ MainPage
    \/ RefreshDashboard
    \/ UpdateIndex
    \/ UpdateWatched
    \/ Render
    \/ \E symbol \in RemoveButtons : WatchlistRemoveButton(symbol)
    \/ \E symbol_text \in DialogTexts : WatchlistDialogAdd(symbol_text)

Spec == Init /\ [][Next]_vars

\* the page, the timer and the add-holding form
FormNext ==
    \/ \E step \in PageTickSteps : Tick(step)
    \/ MainPage
    \/ RefreshDashboard
    \/ UpdateIndex
    \/ UpdateWatched
    \/ Render
    \/ \E symbol_text \in SymbolTexts, shares_text \in SharesTexts, price_text \in PriceTexts :
          PortfolioAddStock(symbol_text, shares_text, price_text)

SpecForm == Init /\ [][FormNext]_vars

---------------------------------------------------------------------------
(* PortfolioManager called directly                                        *)

LedgerSymbols == {AAPL, aapl, NFLX, IBM, ibm}
LedgerAmounts == {Fin(10), Fin(0), NaN}

LedgerNext ==
    \/ \E symbol \in LedgerSymbols : add_to_watchlist(symbol)
    \/ \E symbol \in LedgerSymbols : remove_from_watchlist(symbol)
    \/ \E symbol \in {aapl}, shares \in LedgerAmounts, purchase_price \in LedgerAmounts :
          add_to_portfolio(symbol, shares, purchase_price)

SpecLedger == Init /\ [][LedgerNext]_vars

---------------------------------------------------------------------------
(* The valuation on its own: every ledger of up to MaxHoldings holdings    *)
(* from SummaryHoldings with every snapshot that prices some of their      *)
(* symbols, on an open page that was rendered from them.                   *)

\* the tasks calculate_portfolio_value creates run once it has returned,
\* one get_stock_data per holding
TasksCycle ==
    [IdleCycle EXCEPT !.phase = "tasks", !.pos = 1, !.origin = "calculate_portfolio_value"]

\* portfolio_manager.calculate_portfolio_value(stock_manager), called from
\* a handler of the event loop
calculate_portfolio_value ==
    /\ Idle
    /\ lastCall' = Called("calculate_portfolio_value", <<>>, portfolio,
                          CalculatePortfolioValue(portfolio))
    /\ cycle' = IF portfolio = <<>> THEN cycle ELSE TasksCycle
    /\ UNCHANGED <<now, cache, current_data, portfolio, watchlist, ui, faults>>

\* one task of calculate_portfolio_value: its result goes nowhere
RunTask ==
    /\ cycle.phase = "tasks"
    /\ LET symbol == portfolio[cycle.pos].symbol IN
       \E resp \in PageResponsesFor(symbol) : CallGetStockData(symbol, resp)
    /\ cycle' = IF cycle.pos < Len(portfolio)
                THEN [cycle EXCEPT !.pos = cycle.pos + 1]
                ELSE IdleCycle
    /\ UNCHANGED <<now, current_data, portfolio, watchlist, ui>>

SummaryHoldings ==
    {[symbol |-> AAPL, shares |-> Fin(10), purchase_price |-> Fin(150), purchase_date |-> 0],
     [symbol |-> AAPL, shares |-> Fin(2), purchase_price |-> Fin(200), purchase_date |-> 0],
     [symbol |-> IBM, shares |-> Fin(5), purchase_price |-> Fin(100), purchase_date |-> 0]}

RECURSIVE LedgersOfLen(_)
LedgersOfLen(len) ==
    IF len = 0 THEN {<<>>}
    ELSE {Append(ledger, holding) : ledger \in LedgersOfLen(len - 1),
                                    holding \in SummaryHoldings}

SummaryLedgers == UNION {LedgersOfLen(len) : len \in 0..MaxHoldings}

\* the quotes a fetch at time 0 can have stored for a symbol
SummaryQuotes(symbol) ==
    {FetchStockData(symbol, resp, 0) : resp \in {Nominal, Answer(BareInfo, <<100>>, 7)}}

SummarySnapshots ==
    UNION {[priced -> UNION {SummaryQuotes(symbol) : symbol \in priced}] :
              priced \in SUBSET {AAPL, IBM}}

SummaryInit ==
    /\ Init!1 /\ Init!5 /\ Init!6 /\ Init!8 /\ Init!9
    /\ portfolio \in SummaryLedgers
    /\ current_data \in {snapshot \in SummarySnapshots :
                            \A symbol \in DOMAIN snapshot : snapshot[symbol].symbol = symbol}
    /\ cache = current_data
    /\ ui = [open |-> TRUE, form |-> portfolio = <<>>,
             view |-> CreatePortfolioContent(portfolio, current_data)]

SummaryNext ==
    \/ calculate_portfolio_value
    \/ RunTask
    \/ RefreshDashboard
    \/ UpdateIndex
    \/ UpdateWatched
    \/ Render

SpecSummary == SummaryInit /\ [][SummaryNext]_vars

---------------------------------------------------------------------------
(* A provider that may never answer.  get_stock_data passes no timeout to  *)
(* yf.Ticker(symbol).info or .history(period="2d") and calls them on the   *)
(* event loop, so the call, the cycle and every other handler wait for as  *)
(* long as the provider takes.                                             *)

\* the symbol of the loop iteration the cycle is at
CurrentSymbol ==
    IF cycle.phase = "indices" THEN MARKET_INDICES[cycle.pos] ELSE watchlist[cycle.pos]

\* the request of the current iteration is never answered
ProviderStalls ==
    /\ cycle.phase \in {"indices", "watchlist"}
    /\ ~CacheHit(CurrentSymbol)
    /\ faults < MaxFaults
    /\ cycle' = [cycle EXCEPT !.phase = "blocked"]
    /\ faults' = faults + 1
    /\ UNCHANGED <<now, cache, current_data, portfolio, watchlist, ui, lastCall>>

StallNext ==
    \/ \E step \in PageTickSteps : Tick(step)
    \/ MainPage
    \/ RefreshDashboard
    \/ UpdateIndex
    \/ UpdateWatched
    \/ Render
    \/ ProviderStalls

\* the event loop keeps running the coroutine it has started
SpecStall ==
    /\ Init
    /\ [][StallNext]_vars
    /\ WF_vars(UpdateIndex)
    /\ WF_vars(UpdateWatched)
    /\ WF_vars(Render)

---------------------------------------------------------------------------
(* The quote computation on its own: every price history of up to MaxBars  *)
(* rows over QuotePrices, handed to one get_stock_data call.               *)

QuotePrices == {0, 100, 110}

RECURSIVE SeriesOfLen(_)
SeriesOfLen(len) ==
    IF len = 0 THEN {<<>>}
    ELSE {Append(series, close) : series \in SeriesOfLen(len - 1), close \in QuotePrices}

Series == UNION {SeriesOfLen(len) : len \in 0..MaxBars}

QuoteInit ==
    /\ Init!1 /\ Init!2 /\ Init!3 /\ Init!4 /\ Init!5 /\ Init!6 /\ Init!7 /\ Init!9
    /\ lastCall \in {[NoCall EXCEPT !.arg = symbol, !.resp = Answer(BareInfo, closes, 1)] :
                        symbol \in {AAPL, aapl}, closes \in Series}

ApplyQuote ==
    /\ lastCall.op = "none"
    /\ CallGetStockData(lastCall.arg, lastCall.resp)
    /\ UNCHANGED <<now, current_data, portfolio, watchlist, cycle, ui>>

QuoteNext == ApplyQuote

SpecQuote == QuoteInit /\ [][QuoteNext]_vars

---------------------------------------------------------------------------
(* Claims about the quote cache                                            *)

\* the step is a call of operation op
IsCall(op) == lastCall'.id # lastCall.id /\ lastCall'.op = op

\* the provider failed: it raised, or the history came back empty
Failed(resp) == resp.raises \/ Len(resp.closes) = 0

\* C1: a get_stock_data(s) call made less than 60 s after the retrieval
\* timestamp of the cached Quote of s does not contact the provider and
\* returns that Quote, so two calls inside one TTL window cause at most one
\* provider fetch.
C1_FreshCallDoesNotFetch ==
    [][IsCall("get_stock_data") =>
          LET sym == lastCall'.arg IN
          (sym \in DOMAIN cache /\ now - cache[sym].last_updated < cache_duration)
              => /\ ~lastCall'.fetched
                 /\ lastCall'.ret = cache[sym]
                 /\ cache' = cache]_vars

\* a call answered from the cache 30 s after the fetch
C1_Witness ==
    /\ lastCall.op = "get_stock_data"
    /\ ~lastCall.fetched
    /\ lastCall.ret.kind = "StockData"
    /\ lastCall.at - lastCall.ret.last_updated = 30

\* C2: an entry is served from the cache iff its age is below 60 s; at any
\* age >= 60 s the provider is invoked and a successful fetch replaces the
\* entry with the new Quote, stamped with the time of the fetch.
C2_FreshIffYoungerThanTTL ==
    (lastCall.op = "get_stock_data" /\ lastCall.before.kind = "StockData") =>
        LET age == lastCall.at - lastCall.before.last_updated IN
        /\ ~lastCall.fetched <=> age < 60
        /\ ~lastCall.fetched => lastCall.ret = lastCall.before
        /\ (lastCall.fetched /\ lastCall.ret # NoneVal) =>
              /\ cache[lastCall.arg] = lastCall.ret
              /\ lastCall.ret.last_updated = lastCall.at
              /\ lastCall.ret.last_updated > lastCall.before.last_updated

\* an entry exactly 60 s old is fetched again and replaced
C2_Witness ==
    /\ lastCall.op = "get_stock_data"
    /\ lastCall.before.kind = "StockData"
    /\ lastCall.at - lastCall.before.last_updated = 60
    /\ lastCall.fetched
    /\ lastCall.ret.kind = "StockData"
    /\ cache[lastCall.arg].last_updated = lastCall.at

\* C3: a fetch that fails (exception or empty history) returns None and
\* leaves the whole cache as it was, and a call that finds no fresh entry
\* always asks the provider, whatever failed before.
C3_FailureLeavesCache ==
    [][IsCall("get_stock_data") =>
          LET sym == lastCall'.arg IN
          /\ (lastCall'.fetched /\ Failed(lastCall'.resp))
                => (lastCall'.ret = NoneVal /\ cache' = cache)
          /\ ~(sym \in DOMAIN cache /\ now - cache[sym].last_updated < cache_duration)
                => lastCall'.fetched]_vars

\* a failed fetch over a stale entry, which is still in the cache
C3_Witness ==
    /\ lastCall.op = "get_stock_data"
    /\ lastCall.fetched
    /\ Failed(lastCall.resp)
    /\ lastCall.ret = NoneVal
    /\ lastCall.before.kind = "StockData"
    /\ cache[lastCall.arg] = lastCall.before

\* C4: cache keys are upper-cased before lookup and storage: no two keys
\* differ only by case, and a call is never sent to the provider while an
\* entry for another casing of its symbol is fresh.
C4_KeysCaseNormalized ==
    /\ \A k1, k2 \in DOMAIN cache : Upper(k1) = Upper(k2) => k1 = k2
    /\ (lastCall.op = "get_stock_data" /\ lastCall.fetched) =>
          ~\E kk \in DOMAIN cache :
                /\ kk # lastCall.arg
                /\ Upper(kk) = Upper(lastCall.arg)
                /\ lastCall.at - cache[kk].last_updated < 60

\* C5: change = latest close - prior close, percent = change / prior x 100
\* and exactly 0 when the prior close is 0; a single bar is its own prior
\* close, so change and percent are 0.
C5_ChangeAndPercent ==
    (lastCall.op = "get_stock_data" /\ lastCall.ret.kind = "StockData") =>
        LET closes == lastCall.resp.closes
            len == Len(closes)
            latest == closes[len]
            prior == IF len >= 2 THEN closes[len - 1] ELSE latest
            quote == lastCall.ret
        IN  /\ quote.price = latest
            /\ quote.change = latest - prior
            /\ prior = 0 => quote.change_percent = Zero
            /\ prior # 0 =>
                  /\ quote.change_percent.den > 0
                  /\ quote.change_percent.num * prior
                        = quote.change * 100 * quote.change_percent.den
            /\ len = 1 => (quote.change = 0 /\ quote.change_percent = Zero)

\* a three-bar history whose last two closes differ, and a zero prior close
C5_Witness ==
    /\ lastCall.op = "get_stock_data"
    /\ lastCall.ret.kind = "StockData"
    /\ Len(lastCall.resp.closes) = 3
    /\ lastCall.resp.closes[1] = 0
    /\ lastCall.resp.closes[2] = 100
    /\ lastCall.ret.change = 10

---------------------------------------------------------------------------
(* Claims about the refresh cycle, the watchlist and the ledger            *)

\* C6: update_market_data updates the snapshot one symbol at a time: a
\* step whose fetch fails changes nothing in the snapshot, a step that
\* succeeds changes only the entry of its symbol, and no step of any
\* handler ever drops a snapshot entry.
C6_SnapshotIncremental ==
    [][/\ DOMAIN current_data \subseteq DOMAIN current_data'
       /\ cycle.phase \in {"indices", "watchlist"} =>
             LET sym == lastCall'.arg IN
             /\ \A kk \in DOMAIN current_data :
                   kk # sym => current_data'[kk] = current_data[kk]
             /\ DOMAIN current_data' \subseteq DOMAIN current_data \cup {sym}
             /\ lastCall'.ret = NoneVal => current_data' = current_data
       /\ cycle.phase \notin {"indices", "watchlist"} => current_data' = current_data]_vars

\* in a running cycle the fetch of a symbol has just failed, the snapshot
\* still shows the Quote an earlier cycle stored for it, and other
\* symbols have been refreshed in this cycle
C6_Witness ==
    /\ cycle.phase = "watchlist"
    /\ cycle.pos >= 2
    /\ lastCall.op = "get_stock_data"
    /\ lastCall.fetched
    /\ lastCall.ret = NoneVal
    /\ lastCall.arg \in DOMAIN current_data
    /\ current_data[lastCall.arg].last_updated < lastCall.at
    /\ current_data[GSPC].last_updated = lastCall.at

\* C7: no symbol occurs in the watchlist twice, and adding a symbol whose
\* upper-case form is already in it leaves the watchlist as it was.
C7_WatchlistIsSet ==
    /\ \A idx, jdx \in 1..Len(watchlist) : watchlist[idx] = watchlist[jdx] => idx = jdx
    /\ (lastCall.op = "add_to_watchlist" /\ InList(lastCall.before, Upper(lastCall.arg)))
          => watchlist = lastCall.before

\* "aapl" added while "AAPL" is in the watchlist: nothing changes
C7_Witness ==
    /\ lastCall.op = "add_to_watchlist"
    /\ lastCall.arg = aapl
    /\ InList(lastCall.before, AAPL)
    /\ watchlist = lastCall.before

\* C8: remove_from_watchlist of a string that is not in the watchlist
\* changes nothing and raises nothing; of a string that is in it, removes
\* exactly that symbol and keeps every other entry in place; the ledger
\* and the snapshot are never touched.
C8_RemoveAbsentIsNoOp ==
    [][IsCall("remove_from_watchlist") =>
          LET sym == lastCall'.arg IN
          /\ lastCall'.ret = NoneVal
          /\ portfolio' = portfolio
          /\ current_data' = current_data
          /\ ~InList(watchlist, sym) => watchlist' = watchlist
          /\ InList(watchlist, sym) =>
                watchlist' = SelectSeq(watchlist, LAMBDA entry : entry # sym)]_vars

\* "aapl" removed from a watchlist that holds "AAPL" but not "aapl"
C8_Witness ==
    /\ lastCall.op = "remove_from_watchlist"
    /\ lastCall.arg = aapl
    /\ ~InList(lastCall.before, aapl)
    /\ watchlist = lastCall.before
    /\ Len(watchlist) >= 8

\* C9: every Holding in the ledger has a finite share count > 0 and a
\* finite purchase price > 0.
C9_HoldingsPositive ==
    \A idx \in 1..Len(portfolio) :
        /\ portfolio[idx].shares.kind = "finite"
        /\ portfolio[idx].shares.val > 0
        /\ portfolio[idx].purchase_price.kind = "finite"
        /\ portfolio[idx].purchase_price.val > 0

\* the texts among the inputs that are not numbers
NonNumericTexts == {<<"t", "e", "n">>, <<"1", "5", "O">>}

\* C10: an add-holding action with an empty symbol, or with a shares or
\* price text that is not a number, changes neither the ledger nor the
\* watchlist nor the snapshot (nor the cache, and starts no refresh).
C10_InvalidInputNoMutation ==
    [][IsCall("add_stock") =>
          LET args == lastCall'.arg IN
          (args[1] = <<>> \/ args[2] \in NonNumericTexts \/ args[3] \in NonNumericTexts)
             => /\ portfolio' = portfolio
                /\ watchlist' = watchlist
                /\ current_data' = current_data
                /\ cache' = cache
                /\ cycle' = cycle]_vars

\* the form was submitted with an empty symbol and valid numbers: the
\* ledger is still empty
C10_Witness ==
    /\ lastCall.op = "add_stock"
    /\ lastCall.arg[1] = <<>>
    /\ lastCall.arg[2] = <<"1", "0">>
    /\ lastCall.arg[3] = <<"1", "5", "0">>
    /\ portfolio = <<>>
    /\ Idle

\* the holdings of a ledger whose symbol has a Quote in the snapshot
PricedHoldings(ledger, snapshot) ==
    SelectSeq(ledger, LAMBDA holding : holding.symbol \in DOMAIN snapshot)

\* C11: the valuation leaves every holding whose symbol has no Quote in
\* the snapshot out of both the total value and the total cost: what is
\* computed for a ledger is what is computed for its priced holdings alone,
\* by create_portfolio_content (totals and summary card) and by
\* calculate_portfolio_value.
C11_UnpricedExcluded ==
    /\ (Idle /\ ui.view # NoneVal /\ ui.view.kind = "holdings") =>
          /\ ui.view.totals = ViewTotals(PricedHoldings(portfolio, current_data), current_data)
          /\ ui.view.summary =
                ViewSummary(ViewTotals(PricedHoldings(portfolio, current_data), current_data))
    /\ lastCall.op = "calculate_portfolio_value" =>
          lastCall.ret = CalculatePortfolioValue(PricedHoldings(lastCall.before, current_data))

\* after a refresh cycle the page shows a ledger of two holdings of which
\* only AAPL is priced, with the summary of the AAPL holding alone
C11_Witness ==
    /\ Idle
    /\ GSPC \in DOMAIN current_data
    /\ Len(portfolio) = 2
    /\ portfolio[1].symbol = AAPL /\ portfolio[2].symbol = IBM
    /\ AAPL \in DOMAIN current_data /\ IBM \notin DOMAIN current_data
    /\ ui.view.kind = "holdings"
    /\ ui.view.summary # NoneVal
    /\ ui.view.summary.total_cost = CostBasis(portfolio[1])
    /\ ui.view.summary.total_value = CurrentValue(portfolio[1], current_data)

RECURSIVE SumValue(_, _)
SumValue(ledger, snapshot) ==
    IF ledger = <<>> THEN Fin(0)
    ELSE FloatAdd(SumValue(Tail(ledger), snapshot), CurrentValue(Head(ledger), snapshot))

RECURSIVE SumCost(_)
SumCost(ledger) ==
    IF ledger = <<>> THEN Fin(0)
    ELSE FloatAdd(SumCost(Tail(ledger)), CostBasis(Head(ledger)))

\* C12: calculate_portfolio_value returns, over the priced holdings, the
\* sum of shares x current price as total value and of shares x purchase
\* price as total cost, their difference as P&L and P&L / total cost x 100
\* as P&L percent, 0 when the total cost is 0 (10 AAPL bought at 150 and
\* priced 165: 1650, 1500, 150 and 10).
C12_SummaryTotals ==
    lastCall.op = "calculate_portfolio_value" =>
       LET priced == PricedHoldings(lastCall.before, current_data)
           value == SumValue(priced, current_data)
           cost == SumCost(priced)
       IN  /\ lastCall.ret.total_value = value
           /\ lastCall.ret.total_cost = cost
           /\ lastCall.ret.total_pnl = FloatSub(value, cost)
           /\ lastCall.ret.total_pnl_percent =
                 IF cost = Fin(0) THEN Zero ELSE FloatPercent(FloatSub(value, cost), cost)

\* C13: the ledger is append-only: a step either leaves it as it is or is
\* an add_to_portfolio (directly or through the add-holding form) that
\* puts one holding after the ones it had, which stay as they were and in
\* their order; so every earlier ledger is a prefix of every later one.
C13_LedgerAppendOnly ==
    [][\/ portfolio' = portfolio
       \/ /\ IsCall("add_to_portfolio") \/ IsCall("add_stock")
          /\ Len(portfolio') = Len(portfolio) + 1
          /\ SubSeq(portfolio', 1, Len(portfolio)) = portfolio]_vars

\* a second, different holding of the same symbol was added after the
\* watchlist had changed, and the first is still the first
C13_Witness ==
    /\ lastCall.op = "add_to_portfolio"
    /\ Len(portfolio) = 2
    /\ lastCall.before = <<portfolio[1]>>
    /\ portfolio[1].symbol = portfolio[2].symbol
    /\ portfolio[1] # portfolio[2]
    /\ watchlist # InitialWatchlist

QuoteFields == {"symbol", "name", "price", "change", "change_percent", "volume", "last_updated"}

\* a StockData with every field of a quote
IsCompleteQuote(data) ==
    /\ data # NoneVal
    /\ data.kind = "StockData"
    /\ QuoteFields \subseteq DOMAIN data

\* C14: whatever handlers run around and between the refresh cycles
\* (single-symbol fetches of the dialog, watchlist additions and removals),
\* every snapshot entry under a key is a complete quote that a successful
\* get_stock_data of that key returned (the one the cache holds for the key
\* or an earlier one), and the loop over the watchlist goes through the
\* watchlist as it is, symbol by symbol, none skipped and none twice.
C14_SnapshotSound ==
    /\ \A symbol \in DOMAIN current_data :
          /\ IsCompleteQuote(current_data[symbol])
          /\ current_data[symbol].symbol = Upper(symbol)
          /\ symbol \in DOMAIN cache
          /\ current_data[symbol].last_updated <= cache[symbol].last_updated
          /\ current_data[symbol].last_updated = cache[symbol].last_updated =>
                current_data[symbol] = cache[symbol]
    /\ cycle.phase = "watchlist" =>
          cycle.seen = MARKET_INDICES \o SubSeq(watchlist, 1, cycle.pos - 1)
    /\ cycle.phase = "render" => cycle.seen = MARKET_INDICES \o watchlist

\* a cycle has gone through a watchlist from which NFLX was removed and
\* to which the dialog added IBM after fetching it
C14_Witness ==
    /\ cycle.phase = "render"
    /\ InList(watchlist, IBM)
    /\ ~InList(watchlist, NFLX)
    /\ IBM \in DOMAIN current_data
    /\ cycle.seen = MARKET_INDICES \o watchlist

\* C15: at most one refresh cycle is in progress at any time, whichever of
\* the page load, the timer, the Refresh button or a watchlist addition or
\* removal started it; with it at most one provider fetch is outstanding.
C15_OneCycleAtATime == cycle.active <= 1

\* a cycle started by a watchlist removal at the time of a timer tick is
\* under way, alone
C15_Witness ==
    /\ cycle.active = 1
    /\ cycle.phase = "watchlist"
    /\ cycle.origin = "refresh"
    /\ lastCall.op = "get_stock_data"
    /\ ~InList(watchlist, NFLX)
    /\ now >= 30

\* C16: every refresh cycle that has started comes to its end, even if the
\* provider never answers for one of the symbols: the call is cut off as a
\* failure after a bounded time and the loop goes on with the next symbol.
C16_CycleCompletes == (cycle.phase # "idle") ~> (cycle.phase = "idle")

C18_PortfolioViewNeverFails ==
    /\ ui.view # ZeroDivisionError
    /\ \A idx \in 1..Len(portfolio) :
          portfolio[idx].symbol \in DOMAIN current_data =>
             CostBasis(portfolio[idx]) # Fin(0)

\* C19: when every get_stock_data of a refresh cycle has returned data,
\* the snapshot at the end of update_market_data holds, for each of the
\* four indices and for each symbol of the watchlist, the quote the cycle
\* obtained for it; the cycle went through ^GSPC, ^DJI, ^IXIC, ^VIX first
\* and then through the watchlist in watchlist order.
C19_FullCycleFillsSnapshot ==
    (cycle.phase = "render" /\ cycle.ok) =>
       /\ cycle.seen = <<GSPC, DJI, IXIC, VIX>> \o watchlist
       /\ \A symbol \in {GSPC, DJI, IXIC, VIX} \cup {watchlist[idx] : idx \in 1..Len(watchlist)} :
             /\ symbol \in DOMAIN current_data
             /\ current_data[symbol] = cache[symbol]

\* a cycle that refetched every symbol a minute after the first one, IBM,
\* added by the dialog, coming last
C19_Witness ==
    /\ cycle.phase = "render"
    /\ cycle.ok
    /\ now >= 60
    /\ cycle.seen[Len(cycle.seen)] = IBM
    /\ \A idx \in 1..Len(cycle.seen) : current_data[cycle.seen[idx]].last_updated = now

Elements(list) == {list[idx] : idx \in 1..Len(list)}

\* list without the elements that are not in other, order kept
Common(list, other) == SelectSeq(list, LAMBDA x : InList(other, x))

\* C20: the watchlist keeps insertion order: no step changes the relative
\* order of two symbols that stay in it, a symbol that comes in comes in at
\* the end, and add_to_watchlist of a symbol not yet present yields the old
\* list followed by that symbol (upper-cased).
C20_WatchlistKeepsOrder ==
    [][/\ Common(watchlist, watchlist') = Common(watchlist', watchlist)
       /\ \A new \in Elements(watchlist') \ Elements(watchlist) :
             /\ watchlist'[Len(watchlist')] = new
             /\ Len(watchlist') = Len(watchlist) + 1
       /\ (IsCall("add_to_watchlist") /\ ~InList(watchlist, Upper(lastCall'.arg))) =>
             watchlist' = Append(watchlist, Upper(lastCall'.arg))]_vars

\* AAPL, removed from the head of the list and added again as "aapl", is
\* now the last symbol, behind NFLX; the others are in their old order
C20_Witness ==
    /\ lastCall.op = "add_to_watchlist"
    /\ lastCall.arg = aapl
    /\ watchlist = Tail(InitialWatchlist) \o <<AAPL>>

\* C21: add and remove agree on what a symbol is: after add_to_watchlist(s)
\* directly followed by remove_from_watchlist(s) with the same string s,
\* in whatever casing, the upper-case form of s is not in the watchlist.
C21_AddThenRemoveSameString ==
    [][(/\ IsCall("remove_from_watchlist")
        /\ lastCall.op = "add_to_watchlist"
        /\ lastCall.arg = lastCall'.arg) =>
          ~InList(watchlist', Upper(lastCall'.arg))]_vars

====
